---- MODULE Spec2Model ----
(***************************************************************************)
(* Query compilation and keyset pagination of the STAC search API          *)
(* (stac_fastapi/sqlalchemy/core.py): post_search, get_search and          *)
(* item_collection over the item table of models/database.py.              *)
(*                                                                         *)
(* Abstractions:                                                           *)
(*  - item ids and datetimes are integers (ordered like the strings and    *)
(*    timestamps they stand for);                                          *)
(*  - geometries are axis-aligned boxes <<x1, y1, x2, y2>> on an integer   *)
(*    grid; centroids are kept doubled (x1 + x2, y1 + y2) and distances    *)
(*    squared, which orders rows exactly like ST_Distance;                 *)
(*  - ST_Transform from EPSG:25832 to the storage CRS is a fixed           *)
(*    translation of the grid (an injective map that is not the identity). *)
(***************************************************************************)
EXTENDS Integers, Sequences, FiniteSets, TLC

VARIABLES table, extensions, req, resp, query, run, lastOp,
          hook, registry, flight

vars == <<table, extensions, req, resp, query, run, lastOp,
          hook, registry, flight>>

(***************************************************************************)
(* Bounds of the model.                                                    *)
(***************************************************************************)
MaxPages == 5

MaxLimit == 2

(***************************************************************************)
(* Program constants.                                                      *)
(***************************************************************************)
storage_srid == 4326

Epsg25832 == 25832

CRS84 == "http://www.opengis.net/def/crs/OGC/1.3/CRS84"

CRS25832 == "http://www.opengis.net/def/crs/EPSG/0/25832"

SupportedCrs == {CRS84, CRS25832}

\* CrsExtension.epsg_from_crs as used by post_search
epsg_from_crs(crs) == IF crs = CRS25832 THEN Epsg25832 ELSE storage_srid

(***************************************************************************)
(* Small sequence helpers.                                                 *)
(***************************************************************************)
Range(s) == {s[i] : i \in 1..Len(s)}

Min2(a, b) == IF a <= b THEN a ELSE b

Take(s, n) == SubSeq(s, 1, Min2(n, Len(s)))

RECURSIVE Reverse(_)
Reverse(s) == IF s = << >> THEN << >> ELSE Append(Reverse(Tail(s)), Head(s))

(***************************************************************************)
(* Geometry.                                                               *)
(***************************************************************************)
Shift25832 == 4

\* ST_Transform(g, storage_srid) of a box given in srid
ST_Transform(box, srid) ==
    IF srid = storage_srid THEN box
    ELSE <<box[1] - Shift25832, box[2] - Shift25832,
           box[3] - Shift25832, box[4] - Shift25832>>

ST_Intersects(a, b) ==
    /\ a[1] <= b[3] /\ b[1] <= a[3]
    /\ a[2] <= b[4] /\ b[2] <= a[4]

\* doubled centroid of a box
Centroid(box) == <<box[1] + box[3], box[2] + box[4]>>

\* ST_Transform(p, storage_srid) of a doubled centroid given in srid
TransformCentroid(p, srid) ==
    IF srid = storage_srid THEN p
    ELSE <<p[1] - 2 * Shift25832, p[2] - 2 * Shift25832>>

\* squared distance between two doubled centroids
ST_Distance(p, q) ==
    (p[1] - q[1]) * (p[1] - q[1]) + (p[2] - q[2]) * (p[2] - q[2])

\* GeoJSON geometry literals of requests and filters
NoGeom == [type |-> "None", coordinates |-> <<0, 0, 0, 0>>]

Geom(type, box) == [type |-> type, coordinates |-> box]

\* shapely.geometry.shape(geojson): the box of the literal
shape(g) == g.coordinates

\* from_bounds of the first four elements of the bbox
BboxGeomFirstFour(bbox) == <<bbox[1], bbox[2], bbox[3], bbox[4]>>

\* ShapelyPolygon.from_bounds of a 4- or 6-element bbox (post_search)
BboxGeom(bbox) ==
    IF Len(bbox) = 4 THEN <<bbox[1], bbox[2], bbox[3], bbox[4]>>
    ELSE <<bbox[1], bbox[2], bbox[4], bbox[5]>>

(***************************************************************************)
(* The item table (models/database.py, class Item).  The primary key is    *)
(* the pair (id, collection_id); rid only names the rows of the model.     *)
(***************************************************************************)
Row(rid, id, coll, dt, fp, gsd) ==
    [rid |-> rid, id |-> id, collection_id |-> coll, datetime |-> dt,
     footprint |-> fp, gsd |-> gsd]

ItemUniverse ==
    { Row(1, 1, "skraafotos2017", 2, <<0, 0, 2, 2>>, 10),
      Row(2, 1, "skraafotos2019", 2, <<4, 0, 6, 2>>, 10),
      Row(3, 2, "skraafotos2017", 2, <<4, 0, 6, 2>>, 20),
      Row(4, 3, "skraafotos2019", 1, <<0, 0, 2, 2>>, 10) }

PrimaryKeyOk(T) ==
    \A r1, r2 \in T :
        (r1.id = r2.id /\ r1.collection_id = r2.collection_id) => r1 = r2

Tables == {T \in SUBSET ItemUniverse : PrimaryKeyOk(T) /\ Cardinality(T) >= 2}

(***************************************************************************)
(* Ordering keys of a compiled query.                                      *)
(***************************************************************************)
Key(expr, dir) == [expr |-> expr, dir |-> dir, point |-> <<0, 0>>, srid |-> 0]

\* ST_Distance(ST_Centroid(ST_Envelope(footprint)),
\*             ST_Transform(ST_GeomFromText(centroid, srid), storage_srid))
DistanceKey(geom, srid) ==
    [expr |-> "distance", dir |-> "asc", point |-> Centroid(geom), srid |-> srid]

KeyVal(row, key) ==
    CASE key.expr = "id" -> row.id
      [] key.expr = "datetime" -> row.datetime
      [] key.expr = "gsd" -> row.gsd
      [] key.expr = "distance" ->
            ST_Distance(Centroid(row.footprint),
                        TransformCentroid(key.point, key.srid))
      [] OTHER -> 0

KeyTuple(row, keys) == [i \in 1..Len(keys) |-> KeyVal(row, keys[i])]

\* -1, 0, 1: position of value tuple a relative to b in the order of keys
RECURSIVE CmpFrom(_, _, _, _)
CmpFrom(a, b, keys, i) ==
    IF i > Len(keys) THEN 0
    ELSE IF a[i] = b[i] THEN CmpFrom(a, b, keys, i + 1)
    ELSE IF (a[i] < b[i]) = (keys[i].dir = "asc") THEN -1 ELSE 1

Cmp(a, b, keys) == CmpFrom(a, b, keys, 1)

\* The order in which the database returns rows: the ORDER BY keys, rows
\* that tie on every key in an order the database is free to choose.
Before(r1, r2, keys, tie) ==
    LET c == Cmp(KeyTuple(r1, keys), KeyTuple(r2, keys), keys)
    IN  \/ c = -1
        \/ c = 0 /\ (IF tie = "up" THEN r1.rid < r2.rid ELSE r1.rid > r2.rid)

RECURSIVE SortRows(_, _, _)
SortRows(S, keys, tie) ==
    IF S = {} THEN << >>
    ELSE LET first == CHOOSE r \in S :
                          \A o \in S \ {r} : Before(r, o, keys, tie)
         IN  <<first>> \o SortRows(S \ {first}, keys, tie)

Ties == {"up", "down"}

(***************************************************************************)
(* The queryable registry (types/filter.py, extensions/filter.py).         *)
(***************************************************************************)
BaseQueryables == {"id", "collection", "geometry", "datetime"}

SkraafotosProperties == {"gsd"}

RegisteredCollections ==
    {"skraafotos2017", "skraafotos2019", "skraafotos2021", "skraafotos2023"}

\* Queryables.get_queryable_properties_intersection: the shared fields
get_queryable_properties_intersection(collection_ids) ==
    LET ids == IF collection_ids = {} THEN RegisteredCollections
               ELSE collection_ids
        all_queryables ==
            {c \in ids : c \in RegisteredCollections}
    IN  IF all_queryables = {} THEN {}
        ELSE {q \in SkraafotosProperties \ BaseQueryables :
                  \A c \in all_queryables : q \in SkraafotosProperties}

\* CoreCrudClient.FIELD_MAPPING: every queryable of any collection
FIELD_MAPPING == BaseQueryables \cup SkraafotosProperties

(***************************************************************************)
(* CQL-JSON filter documents.  A JSON object is a record keyed by its      *)
(* keys, a JSON array the record [list |-> s] of a sequence, a JSON number *)
(* the record [lit |-> n].                                                 *)
(***************************************************************************)
Prop(name) == [property |-> name]

Num(n) == [lit |-> n]

GeometryTypes ==
    {"Polygon", "LineString", "Point", "MultiPolygon", "MultiLineString",
     "MultiPoint", "GeometryCollection"}

List(s) == [list |-> s]

\* keys of a JSON object whose values are strings or coordinates
ScalarKeys == {"property", "type", "coordinates", "crs"}

\* a tagging that knows polygons only
RECURSIVE add_filter_crs_polygons(_, _)
add_filter_crs_polygons(data, crs) ==
    IF "list" \in DOMAIN data THEN
        List([i \in 1..Len(data.list) |->
                 add_filter_crs_polygons(data.list[i], crs)])
    ELSE IF "lit" \in DOMAIN data THEN data
    ELSE IF "type" \in DOMAIN data /\ data.type = "Polygon" THEN
        [k \in DOMAIN data \cup {"crs"} |-> IF k = "crs" THEN crs ELSE data[k]]
    ELSE [k \in DOMAIN data |->
             IF k \in ScalarKeys THEN data[k]
             ELSE add_filter_crs_polygons(data[k], crs)]

\* add_filter_crs: tag every geometry literal of the document with crs
RECURSIVE add_filter_crs(_, _)
add_filter_crs(data, crs) ==
    IF "list" \in DOMAIN data THEN
        List([i \in 1..Len(data.list) |-> add_filter_crs(data.list[i], crs)])
    ELSE IF "lit" \in DOMAIN data THEN data
    ELSE IF "type" \in DOMAIN data /\ data.type \in GeometryTypes THEN
        [k \in DOMAIN data \cup {"crs"} |-> IF k = "crs" THEN crs ELSE data[k]]
    ELSE [k \in DOMAIN data |->
             IF k \in ScalarKeys THEN data[k] ELSE add_filter_crs(data[k], crs)]

(***************************************************************************)
(* pygeofilter.parsers.cql_json.parse: document to syntax tree.            *)
(***************************************************************************)
COMPARISON_MAP ==
    [eq |-> "Equal", lt |-> "LessThan", lte |-> "LessEqual",
     gt |-> "GreaterThan", gte |-> "GreaterEqual"]

SPATIAL_PREDICATES_MAP == [intersects |-> "GeometryIntersects"]

ARRAY_PREDICATES_MAP ==
    [aequals |-> "ArrayEquals", acontains |-> "ArrayContains"]

ARITHMETIC_MAP == ("+" :> "Add") @@ ("-" :> "Sub")

\* the enum member names of the op attribute of the node classes
OpName ==
    [Equal |-> "EQ", LessThan |-> "LT", LessEqual |-> "LE",
     GreaterThan |-> "GT", GreaterEqual |-> "GE",
     GeometryIntersects |-> "INTERSECTS",
     ArrayEquals |-> "AEQUALS", ArrayContains |-> "ACONTAINS",
     Add |-> "ADD", Sub |-> "SUB"]

Binary(cls, l, r) == [t |-> cls, op |-> OpName[cls], lhs |-> l, rhs |-> r]

IsError(n) == n.t = "ParseError"

ParseError(node) == [t |-> "ParseError", node |-> node]

FirstError(ns) ==
    ns[CHOOSE i \in 1..Len(ns) : IsError(ns[i]) /\ \A j \in 1..(i - 1) : ~IsError(ns[j])]

HasError(ns) == \E i \in 1..Len(ns) : IsError(ns[i])

RECURSIVE FoldLogical(_, _, _)
FoldLogical(cls, last, rest) ==
    IF rest = << >> THEN last
    ELSE FoldLogical(cls, [t |-> cls, lhs |-> last, rhs |-> Head(rest)], Tail(rest))

RECURSIVE walk_cql_json(_)
walk_cql_json(node) ==
    IF "lit" \in DOMAIN node THEN [t |-> "Lit", v |-> node.lit]
    ELSE IF "type" \in DOMAIN node /\ "coordinates" \in DOMAIN node
    THEN [t |-> "Geometry", geometry |-> node]
    ELSE IF "property" \in DOMAIN node
    THEN [t |-> "Attribute", name |-> node.property]
    ELSE
      LET name == CHOOSE k \in DOMAIN node : TRUE
          value == node[name]
      IN  IF name \in {"and", "or"} THEN
              LET sub_items == [i \in 1..Len(value.list) |->
                                   walk_cql_json(value.list[i])]
              IN  IF HasError(sub_items) THEN FirstError(sub_items)
                  ELSE FoldLogical(IF name = "and" THEN "And" ELSE "Or",
                                   Head(sub_items), Tail(sub_items))
          ELSE IF name = "not" THEN
              LET sub == walk_cql_json(IF "list" \in DOMAIN value
                                       THEN value.list[1] ELSE value)
              IN  IF IsError(sub) THEN sub ELSE [t |-> "Not", sub_node |-> sub]
          ELSE IF name = "between" THEN
              LET subs == <<walk_cql_json(value.value),
                            walk_cql_json(value.lower),
                            walk_cql_json(value.upper)>>
              IN  IF HasError(subs) THEN FirstError(subs)
                  ELSE [t |-> "Between", lhs |-> subs[1],
                        low |-> subs[2], high |-> subs[3]]
          ELSE IF name = "isNull" THEN
              LET sub == walk_cql_json(value)
              IN  IF IsError(sub) THEN sub ELSE [t |-> "IsNull", lhs |-> sub]
          ELSE IF \/ name \in DOMAIN COMPARISON_MAP
                  \/ name \in DOMAIN SPATIAL_PREDICATES_MAP
                  \/ name \in DOMAIN ARRAY_PREDICATES_MAP
                  \/ name \in DOMAIN ARITHMETIC_MAP
          THEN
              LET subs == <<walk_cql_json(value.list[1]),
                            walk_cql_json(value.list[2])>>
                  cls == (COMPARISON_MAP @@ SPATIAL_PREDICATES_MAP
                          @@ ARRAY_PREDICATES_MAP @@ ARITHMETIC_MAP)[name]
              IN  IF HasError(subs) THEN FirstError(subs)
                  ELSE Binary(cls, subs[1], subs[2])
          ELSE ParseError(node)

(***************************************************************************)
(* Filter validation (core.py, module functions).                          *)
(***************************************************************************)
\* Python truthiness of a tree node: the number 0 is falsy
Truthy(expr) == ~(expr.t = "Lit" /\ expr.v = 0)

RECURSIVE inOrderFieldCollect_rec(_)
inOrderFieldCollect_rec(expr) ==
    IF ~Truthy(expr) THEN << >>
    ELSE IF expr.t = "Attribute" THEN <<expr.name>>
    ELSE
      LET res0 == IF expr.t = "Not"
                  THEN inOrderFieldCollect_rec(expr.sub_node) ELSE << >>
          res1 == IF "lhs" \in DOMAIN expr
                  THEN inOrderFieldCollect_rec(expr.lhs) ELSE res0
      IN  IF "rhs" \in DOMAIN expr
          THEN res1 \o inOrderFieldCollect_rec(expr.rhs) ELSE res1

Ok == [ok |-> TRUE]

Raise(what) == [ok |-> FALSE, detail |-> what]

\* raises ValueError("Cannot search on field: <name>") for a collected
\* name outside valid_fields
validate_filter_fields(expr, valid_fields) ==
    LET res == Range(inOrderFieldCollect_rec(expr))
        bad == res \ valid_fields
    IN  IF bad = {} THEN Ok ELSE Raise(CHOOSE f \in bad : TRUE)

\* classes of the five operator maps of the parser
pgf_ops ==
    {"Equal", "LessThan", "LessEqual", "GreaterThan", "GreaterEqual",
     "GeometryIntersects", "ArrayEquals", "ArrayContains", "Add", "Sub"}

\* expr.op.name.lower()
OpNameLower ==
    [EQ |-> "eq", LT |-> "lt", LE |-> "le", GT |-> "gt", GE |-> "ge",
     INTERSECTS |-> "intersects", AEQUALS |-> "aequals",
     ACONTAINS |-> "acontains", ADD |-> "add", SUB |-> "sub"]

RECURSIVE inOrderOpsCollect_rec(_)
inOrderOpsCollect_rec(expr) ==
    IF ~Truthy(expr) THEN << >>
    ELSE
      LET res0 == IF expr.t \in pgf_ops THEN <<OpNameLower[expr.op]>> ELSE << >>
          res1 == IF expr.t = "Not"
                  THEN res0 \o inOrderOpsCollect_rec(expr.sub_node) ELSE res0
          res2 == IF "lhs" \in DOMAIN expr
                  THEN res1 \o inOrderOpsCollect_rec(expr.lhs) ELSE res1
      IN  IF "rhs" \in DOMAIN expr
          THEN res2 \o inOrderOpsCollect_rec(expr.rhs) ELSE res2

\* keys of the comparison, spatial, temporal and arithmetic maps
valid_operations == {"eq", "lt", "lte", "gt", "gte", "intersects", "+", "-"}

\* raises ValueError(f"Unsupported operation: {expr}")
validate_filter_operations(expr, valid_ops) ==
    LET res == Range(inOrderOpsCollect_rec(expr))
        renamed == {IF op = "ge" THEN "gte" ELSE IF op = "le" THEN "lte" ELSE op :
                        op \in res}
    IN  IF renamed \subseteq valid_ops THEN Ok ELSE Raise(expr)

NoneNode == [t |-> "None"]

RECURSIVE get_geometry_filter(_)
get_geometry_filter(filter) ==
    IF "geometry" \in DOMAIN filter THEN filter
    ELSE
      LET lhs == IF "lhs" \in DOMAIN filter
                 THEN get_geometry_filter(filter.lhs) ELSE NoneNode
          rhs == IF "rhs" \in DOMAIN filter
                 THEN get_geometry_filter(filter.rhs) ELSE NoneNode
      IN  IF lhs # NoneNode THEN lhs ELSE rhs

(***************************************************************************)
(* to_filter: the syntax tree as a predicate over rows.                    *)
(***************************************************************************)
\* ST_GeomFromText(wkt, crs), transformed to 4326 unless crs is 4326
monkeypatch_parse_geometry(geom) ==
    LET crs == IF "crs" \in DOMAIN geom THEN geom.crs ELSE 4326
    IN  IF crs = 4326 THEN shape(geom) ELSE ST_Transform(shape(geom), crs)

\* the nodes the sqlalchemy backend builds an expression for, over the
\* columns of FIELD_MAPPING
RECURSIVE Compilable(_)
Compilable(n) ==
    CASE n.t = "Attribute" -> n.name \in FIELD_MAPPING
      [] n.t \in {"Lit", "Geometry"} -> TRUE
      [] n.t = "Not" -> Compilable(n.sub_node)
      [] n.t = "IsNull" -> Compilable(n.lhs)
      [] n.t = "Between" ->
            Compilable(n.lhs) /\ Compilable(n.low) /\ Compilable(n.high)
      [] n.t \in {"ArrayEquals", "ArrayContains"} -> FALSE
      [] OTHER -> Compilable(n.lhs) /\ Compilable(n.rhs)

RECURSIVE Val(_, _)
Val(n, row) ==
    CASE n.t = "Lit" -> n.v
      [] n.t = "Geometry" -> monkeypatch_parse_geometry(n.geometry)
      [] n.t = "Attribute" ->
            CASE n.name = "id" -> row.id
              [] n.name = "datetime" -> row.datetime
              [] n.name = "gsd" -> row.gsd
              [] n.name = "geometry" -> row.footprint
              [] OTHER -> row.collection_id
      [] n.t = "Add" -> Val(n.lhs, row) + Val(n.rhs, row)
      [] n.t = "Sub" -> Val(n.lhs, row) - Val(n.rhs, row)

RECURSIVE Holds(_, _)
Holds(n, row) ==
    CASE n.t = "And" -> Holds(n.lhs, row) /\ Holds(n.rhs, row)
      [] n.t = "Or" -> Holds(n.lhs, row) \/ Holds(n.rhs, row)
      [] n.t = "Not" -> ~Holds(n.sub_node, row)
      [] n.t = "Equal" -> Val(n.lhs, row) = Val(n.rhs, row)
      [] n.t = "LessThan" -> Val(n.lhs, row) < Val(n.rhs, row)
      [] n.t = "LessEqual" -> Val(n.lhs, row) <= Val(n.rhs, row)
      [] n.t = "GreaterThan" -> Val(n.lhs, row) > Val(n.rhs, row)
      [] n.t = "GreaterEqual" -> Val(n.lhs, row) >= Val(n.rhs, row)
      [] n.t = "Between" ->
            /\ Val(n.low, row) <= Val(n.lhs, row)
            /\ Val(n.lhs, row) <= Val(n.high, row)
      [] n.t = "IsNull" -> FALSE
      [] n.t = "GeometryIntersects" ->
            ST_Intersects(Val(n.lhs, row), Val(n.rhs, row))

(***************************************************************************)
(* Pagination tokens and sqlakeyset.get_page.                              *)
(***************************************************************************)
\* a bookmark is (place, backwards); place << >> stands for None
Bookmark(place, backwards) == [place |-> place, backwards |-> backwards]

NoToken == << >>

\* the token is the serialized bookmark: direction flag, then the values
to_token(keyset) == <<IF keyset.backwards THEN 1 ELSE 0>> \o keyset.place

from_token(pt) == Bookmark(Tail(pt), Head(pt) = 1)

\* the rows beyond the place of the bookmark, on the side it points to
After(rows, keys, page) ==
    IF page.place = << >> THEN rows
    ELSE {r \in rows :
             Cmp(KeyTuple(r, keys), page.place, keys) =
                 (IF page.backwards THEN -1 ELSE 1)}

\* the order the rows are fetched in: the ORDER BY, reversed when paging
\* backwards
Ordered(after, keys, backwards, tie) ==
    IF backwards THEN Reverse(SortRows(after, keys, tie))
    ELSE SortRows(after, keys, tie)

\* sqlakeyset Paging: the markers of the page and what they make of it
Paging(fetched, marker_0, marker_1, marker_n, marker_nplus1, backwards) ==
    LET before == IF backwards THEN marker_nplus1 ELSE marker_0
        first == IF backwards THEN marker_n ELSE marker_1
        last == IF backwards THEN marker_1 ELSE marker_n
        beyond == IF backwards THEN marker_0 ELSE marker_nplus1
    IN  [rows |-> IF backwards THEN Reverse(fetched) ELSE fetched,
         has_next |-> beyond # << >>,
         has_previous |-> before # << >>,
         bookmark_next |-> Bookmark(IF last # << >> THEN last ELSE before, FALSE),
         bookmark_previous |->
             Bookmark(IF first # << >> THEN first ELSE beyond, TRUE)]

\* per_page rows of the fetch and the row after them, if any
Fetched(ordered, keys, per_page, page) ==
    Paging(Take(ordered, per_page),
           page.place,
           IF ordered = << >> THEN << >> ELSE KeyTuple(ordered[1], keys),
           IF ordered = << >> THEN << >>
           ELSE KeyTuple(ordered[Min2(Len(ordered), per_page)], keys),
           IF Len(ordered) > per_page THEN KeyTuple(ordered[per_page + 1], keys)
           ELSE << >>,
           page.backwards)

\* rows: the rows the query selects; keys: its ORDER BY; page: a bookmark
\* or the bookmark of no place
get_page(rows, keys, per_page, page, tie) ==
    Fetched(Ordered(After(rows, keys, page), keys, page.backwards, tie),
            keys, per_page, page)

(***************************************************************************)
(* Requests.                                                               *)
(***************************************************************************)
\* open ends of a datetime interval: ".." and ""
OpenDots == -1

OpenEmpty == -2

OpenEnds == {OpenDots, OpenEmpty}

AllExtensions == {"CrsExtension", "FilterExtension", "ContextExtension"}

\* the request model without the validator of the spatial parameters
post_request_model_lenient(r) ==
    (IF r.limit < 1 THEN {"limit"} ELSE {})
    \cup (IF r.crs \notin SupportedCrs THEN {"crs"} ELSE {})
    \cup (IF r.bbox_crs \notin SupportedCrs THEN {"bbox-crs"} ELSE {})
    \cup (IF r.filter_crs \notin SupportedCrs THEN {"filter-crs"} ELSE {})
    \cup (IF Len(r.datetime) = 2 /\ r.datetime[1] \in OpenEnds
             /\ r.datetime[2] \in OpenEnds
          THEN {"datetime"} ELSE {})

\* the request model with a least limit of two
post_request_model_min_two(r) ==
    (IF r.intersects # NoGeom /\ r.bbox # << >>
        THEN {"intersects", "bbox"} ELSE {})
    \cup (IF r.limit < 2 THEN {"limit"} ELSE {})
    \cup (IF r.crs \notin SupportedCrs THEN {"crs"} ELSE {})
    \cup (IF r.bbox_crs \notin SupportedCrs THEN {"bbox-crs"} ELSE {})
    \cup (IF r.filter_crs \notin SupportedCrs THEN {"filter-crs"} ELSE {})
    \cup (IF Len(r.datetime) = 2 /\ r.datetime[1] \in OpenEnds
             /\ r.datetime[2] \in OpenEnds
          THEN {"datetime"} ELSE {})

\* the request model without the validator of the datetime interval
post_request_model_any_interval(r) ==
    (IF r.intersects # NoGeom /\ r.bbox # << >>
        THEN {"intersects", "bbox"} ELSE {})
    \cup (IF r.limit < 1 THEN {"limit"} ELSE {})
    \cup (IF r.crs \notin SupportedCrs THEN {"crs"} ELSE {})
    \cup (IF r.bbox_crs \notin SupportedCrs THEN {"bbox-crs"} ELSE {})
    \cup (IF r.filter_crs \notin SupportedCrs THEN {"filter-crs"} ELSE {})

\* the request model built by create_post_request_model(extensions):
\* the parameter names its validators reject, {} when the request is valid
post_request_model(r) ==
    (IF r.intersects # NoGeom /\ r.bbox # << >>
        THEN {"intersects", "bbox"} ELSE {})
    \cup (IF r.limit < 1 THEN {"limit"} ELSE {})
    \cup (IF r.crs \notin SupportedCrs THEN {"crs"} ELSE {})
    \cup (IF r.bbox_crs \notin SupportedCrs THEN {"bbox-crs"} ELSE {})
    \cup (IF r.filter_crs \notin SupportedCrs THEN {"filter-crs"} ELSE {})
    \cup (IF Len(r.datetime) = 2 /\ r.datetime[1] \in OpenEnds
             /\ r.datetime[2] \in OpenEnds
          THEN {"datetime"} ELSE {})

(***************************************************************************)
(* The filter documents and sort terms of the model's requests.            *)
(***************************************************************************)
Square == Geom("Polygon", <<4, 4, 6, 6>>)

GsdArray == [acontains |-> List(<<Prop("gsd"), Num(1)>>)]

InvalidOp == [invalid_op |-> List(<<Prop("gsd"), Num(1)>>)]

FilterDoc(name) ==
    CASE name = "gsd_eq" -> [eq |-> List(<<Prop("gsd"), Num(10)>>)]
      [] name = "gsd_gte" -> [gte |-> List(<<Prop("gsd"), Num(20)>>)]
      [] name = "bad_field" ->
            [eq |-> List(<<Prop("invalid-field"), Num(50)>>)]
      [] name = "between_ok" ->
            [between |-> [value |-> Prop("gsd"), lower |-> Num(5),
                          upper |-> Num(10)]]
      [] name = "between_bad_lower" ->
            [between |-> [value |-> Prop("gsd"),
                          lower |-> Prop("invalid-field"), upper |-> Num(50)]]
      [] name = "array" -> GsdArray
      [] name = "and_array" ->
            [and |-> List(<<[eq |-> List(<<Prop("gsd"), Num(10)>>)], GsdArray>>)]
      [] name = "between_array" ->
            [between |-> [value |-> Prop("gsd"), lower |-> GsdArray,
                          upper |-> Num(50)]]
      [] name = "invalid_op" -> InvalidOp
      [] name = "invalid_op_bad_field" ->
            [and |-> List(<<[eq |-> List(<<Prop("invalid-field"), Num(1)>>)],
                            InvalidOp>>)]
      [] name = "invalid_op_array" ->
            [or |-> List(<<GsdArray, [not |-> InvalidOp]>>)]
      [] name = "intersects" ->
            [intersects |-> List(<<Prop("geometry"), Square>>)]
      [] name = "not_intersects" ->
            [not |-> [intersects |-> List(<<Prop("geometry"), Square>>)]]
      [] name = "add" ->
            [eq |-> List(<<"+" :> List(<<Prop("gsd"), Num(1)>>), Num(11)>>)]
      [] name = "geoms_nested" ->
            [or |-> List(<<
                [intersects |-> List(<<Prop("geometry"),
                                       Geom("Point", <<5, 5, 5, 5>>)>>)],
                [and |-> List(<<
                    [intersects |-> List(<<Prop("geometry"),
                                           Geom("MultiPolygon", <<4, 4, 6, 6>>)>>)],
                    [not |-> [intersects |->
                                 List(<<Prop("geometry"),
                                        Geom("LineString", <<0, 0, 1, 1>>)>>)]]
                >>)]
            >>)]
      [] name = "geoms_multi" ->
            [and |-> List(<<
                [intersects |-> List(<<Prop("geometry"),
                                       Geom("MultiLineString", <<4, 4, 6, 6>>)>>)],
                [intersects |-> List(<<Prop("geometry"),
                                       Geom("MultiPoint", <<5, 5, 6, 6>>)>>)],
                [gte |-> List(<<Prop("gsd"), Num(10)>>)]
            >>)]
      [] name = "geometry_collection" ->
            [intersects |-> List(<<Prop("geometry"),
                [type |-> "GeometryCollection",
                 geometries |-> List(<<Geom("Point", <<5, 5, 5, 5>>)>>)]>>)]
      [] OTHER -> Num(0)

(***************************************************************************)
(* Sort fields.  A field name is a sequence of characters, so that the     *)
(* GET form "+gsd" can be cut as the code cuts it.                         *)
(***************************************************************************)
F_gsd == <<"g", "s", "d">>

F_datetime == <<"d", "t">>

F_id == <<"i", "d">>

\* item_table.get_field(name): the column of the name, "" when there is none
get_field(name) ==
    CASE name = F_gsd -> "gsd"
      [] name = F_datetime -> "datetime"
      [] name = F_id -> "id"
      [] OTHER -> ""

SortBy(field, direction) == [field |-> field, direction |-> direction]

(***************************************************************************)
(* Responses and compiled queries.                                         *)
(***************************************************************************)
NoCount == -1

\* a link is the parameters it repeats and the pt parameters it carries
NoLink == [params |-> << >>, pts |-> << >>]

NoLinks == [next |-> NoLink, previous |-> NoLink]

\* what the handler did with the storage: the collection or item lookup,
\* the count query, the page query (executed) with its ordering, selection
\* and page size
NoQuery ==
    [compiled |-> FALSE, executed |-> FALSE, order_by |-> << >>,
     selected |-> {}, lookup |-> FALSE, counted |-> FALSE,
     count_failed |-> FALSE, per_page |-> 0, sessions |-> 0, held |-> 0,
     has_next |-> FALSE, has_previous |-> FALSE]

\* a session that is closed on return only
session_closed_on_return(out) ==
    [out EXCEPT !.query = [@ EXCEPT !.sessions = @ + 1,
                                    !.held = IF out.resp.status = "ok"
                                             THEN @ ELSE @ + 1]]

\* `with self.session.reader.context_session() as session:` around the
\* outcome of its body: one session is acquired, and it is released when the
\* block is left, by return or by exception
context_session(out) ==
    [out EXCEPT !.query = [@ EXCEPT !.sessions = @ + 1]]

\* content_crs is the Content-Crs header, feature_crs the crs name written
\* on the features; "" when there is none
Error(status, detail) ==
    [resp |-> [status |-> status, detail |-> detail, features |-> << >>,
               next |-> NoToken, previous |-> NoToken, matched |-> NoCount,
               content_crs |-> "", feature_crs |-> "", collections |-> {},
               links |-> NoLinks],
     query |-> NoQuery]

\* a lookup that answers a missing row with an empty success
lookup_id_empty(tbl, id) == Error("ok", "")

\* NotFoundError(f"{table.__name__} {id} not found")
NotFound(tbl, id) == Error("NotFoundError", [table |-> tbl, id |-> id])

\* to_filter was given the tree and the request ended in its error
CompileError ==
    [resp |-> Error("InternalError", "to_filter").resp,
     query |-> [NoQuery EXCEPT !.compiled = TRUE]]

Rids(rows) == [i \in 1..Len(rows) |-> rows[i].rid]

\* the response built from a page
PageResponse(page, keys, count, compiled, selected, counted, per_page) ==
    [resp |-> [status |-> "ok", detail |-> "",
               features |-> Rids(page.rows),
               next |-> IF page.has_next
                        THEN to_token(page.bookmark_next) ELSE NoToken,
               previous |-> IF page.has_previous
                            THEN to_token(page.bookmark_previous)
                            ELSE NoToken,
               matched |-> count, content_crs |-> "", feature_crs |-> "",
               collections |-> {},
               links |-> NoLinks],
     query |-> [NoQuery EXCEPT !.compiled = compiled, !.executed = TRUE,
                               !.order_by = keys, !.selected = selected,
                               !.counted = counted, !.per_page = per_page,
                               !.has_next = page.has_next,
                               !.has_previous = page.has_previous]]

\* the page fetch and the response built from it
Respond(T, keys, limit, pagination_token, count, compiled, counted, tie) ==
    PageResponse(get_page(T, keys, limit, pagination_token, tie),
                 keys, count, compiled, {r.rid : r \in T}, counted, limit)

NoBox == << >>

\* the temporal predicate with the bounds excluded
DatetimeHoldsExclusive(datetime, row) ==
    IF datetime = << >> THEN TRUE
    ELSE IF Len(datetime) = 1 THEN row.datetime = datetime[1]
    ELSE IF datetime[1] \notin OpenEnds /\ datetime[2] \notin OpenEnds
    THEN datetime[1] < row.datetime /\ row.datetime < datetime[2]
    ELSE IF datetime[1] \notin OpenEnds THEN row.datetime > datetime[1]
    ELSE IF datetime[2] \notin OpenEnds THEN row.datetime < datetime[2]
    ELSE TRUE

\* the temporal predicate of post_search and item_collection
DatetimeHolds(datetime, row) ==
    IF datetime = << >> THEN TRUE
    ELSE IF Len(datetime) = 1 THEN row.datetime = datetime[1]
    ELSE IF datetime[1] \notin OpenEnds /\ datetime[2] \notin OpenEnds
    THEN datetime[1] <= row.datetime /\ row.datetime <= datetime[2]
    ELSE IF datetime[1] \notin OpenEnds THEN row.datetime >= datetime[1]
    ELSE IF datetime[2] \notin OpenEnds THEN row.datetime <= datetime[2]
    ELSE TRUE

\* the spatial predicate built from the bbox or intersects geometry
SpatialHolds(geom, bbox_srid, row) ==
    IF geom = NoBox THEN TRUE
    ELSE IF bbox_srid = storage_srid THEN ST_Intersects(row.footprint, geom)
    ELSE ST_Intersects(ST_Transform(geom, bbox_srid), row.footprint)

\* the explicit sort without the closing id key
SortKeysUntied(sortby) ==
    IF sortby # << >>
    THEN [i \in 1..Len(sortby) |->
             Key(get_field(sortby[i].field), sortby[i].direction)]
    ELSE <<Key("datetime", "desc")>>

\* the keys of the explicit sort, or of the default sort
SortKeys(sortby) ==
    IF sortby # << >>
    THEN [i \in 1..Len(sortby) |->
             Key(get_field(sortby[i].field), sortby[i].direction)]
         \o <<Key("id", "asc")>>
    ELSE <<Key("datetime", "desc"), Key("id", "asc")>>

\* the outcome of the filter block for a tree that passed both validations
Compiled(ast, geometry, geom) ==
    IF ~Compilable(ast)
    THEN [status |-> "InternalError", detail |-> "to_filter"]
    ELSE [status |-> "ok", ast |-> ast,
          geom |-> IF geometry # NoneNode THEN shape(geometry.geometry)
                   ELSE geom]

\* the two validations of the tree, fields first
Validated(ast, fields, ops, geom) ==
    IF ~fields.ok THEN [status |-> "FieldError", detail |-> fields.detail]
    ELSE IF ~ops.ok THEN [status |-> "OperationError", detail |-> ops.detail]
    ELSE Compiled(ast, get_geometry_filter(ast), geom)

\* the parse failure reported by field validation
ParsedAsField(ast, valid_fields, geom) ==
    IF IsError(ast) THEN [status |-> "FieldError", detail |-> "node"]
    ELSE Validated(ast, validate_filter_fields(ast, valid_fields),
                   validate_filter_operations(ast, valid_operations), geom)

\* the parse result: its error, or the validations of the tree
Parsed(ast, valid_fields, geom) ==
    IF IsError(ast) THEN [status |-> "ParseError", detail |-> ast.node]
    ELSE Validated(ast, validate_filter_fields(ast, valid_fields),
                   validate_filter_operations(ast, valid_operations), geom)

\* the filter block of post_search: parse, validate, compile; the geometry
\* the distance ordering of the block uses
CompileFilter(name, collection_ids, filter_srid, geom) ==
    Parsed(walk_cql_json(add_filter_crs(FilterDoc(name), filter_srid)),
           BaseQueryables \cup get_queryable_properties_intersection(collection_ids),
           geom)

NoFilter == [status |-> "ok", ast |-> NoneNode, geom |-> NoBox]

\* the id filter matching the first id only
IdFilterFirst(ids, rows) == {row \in rows : row.id = Head(ids)}

\* sa.or_(item_table.id == i for i in ids) over the query so far
IdFilter(ids, rows) == {row \in rows : row.id \in Range(ids)}

\* the bookmark of the pt parameter
PageOfToken(pt) ==
    IF pt # NoToken THEN from_token(pt) ELSE Bookmark(<< >>, FALSE)

\* the rows a compiled query selects
Selected(rows, geom, bbox_srid, filter, datetime) ==
    {row \in rows :
        /\ SpatialHolds(geom, bbox_srid, row)
        /\ (filter.ast # NoneNode => Holds(filter.ast, row))
        /\ DatetimeHolds(datetime, row)}

\* the distance keys of the spatial block and of the filter block
DistanceKeys(order_spatial, filter, filter_srid) ==
    IF filter.geom # NoBox
    THEN order_spatial \o <<DistanceKey(filter.geom, filter_srid)>>
    ELSE order_spatial

Count(context_on, n) == IF context_on THEN n ELSE NoCount

\* the first sort term whose field is no column
UnknownSortField(sortby) ==
    sortby[CHOOSE i \in 1..Len(sortby) :
               /\ get_field(sortby[i].field) = ""
               /\ \A j \in 1..(i - 1) : get_field(sortby[j].field) # ""].field

\* post_search below the ids branch, for the geometry of the spatial block
\* and the outcome of the filter block
Search(r, rows, bbox_srid, filter_srid, context_on, geom, filter, tie) ==
    IF filter.status = "InternalError" THEN CompileError
    ELSE IF filter.status # "ok" THEN Error(filter.status, filter.detail)
    ELSE IF \E i \in 1..Len(r.sortby) : get_field(r.sortby[i].field) = ""
    THEN Error("SortFieldError", UnknownSortField(r.sortby))
    ELSE PageResponse(
             get_page(Selected(rows, geom, bbox_srid, filter, r.datetime),
                      DistanceKeys(IF geom # NoBox /\ r.sortby = << >>
                                   THEN <<DistanceKey(geom, bbox_srid)>>
                                   ELSE << >>, filter, filter_srid)
                          \o SortKeys(r.sortby),
                      r.limit, PageOfToken(r.pt), tie),
             DistanceKeys(IF geom # NoBox /\ r.sortby = << >>
                          THEN <<DistanceKey(geom, bbox_srid)>>
                          ELSE << >>, filter, filter_srid)
                 \o SortKeys(r.sortby),
             Count(context_on,
                   Cardinality(Selected(rows, geom, bbox_srid, filter, r.datetime))),
             filter.ast # NoneNode,
             {row.rid : row \in Selected(rows, geom, bbox_srid, filter, r.datetime)},
             context_on, r.limit)

\* the geometry of the spatial block: intersects, else bbox
SpatialGeom(r) ==
    IF r.intersects # NoGeom THEN shape(r.intersects)
    ELSE IF r.bbox # << >> THEN BboxGeom(r.bbox) ELSE NoBox

\* post_search with the srids resolved and the collections joined
SearchIn(r, rows, bbox_srid, filter_srid, context_on, tie) ==
    IF r.ids # << >> THEN
        \* Ignore other parameters if ID is present
        Respond(IdFilter(r.ids, rows), <<Key("id", "asc")>>, r.limit,
                PageOfToken(r.pt), Count(context_on, Len(r.ids)), FALSE, FALSE,
                tie)
    ELSE Search(r, rows, bbox_srid, filter_srid, context_on, SpatialGeom(r),
                IF r.filter # ""
                THEN CompileFilter(r.filter, r.collections, filter_srid,
                                   SpatialGeom(r))
                ELSE NoFilter,
                tie)

\* CrsExtension.storageCrs
storageCrs == CRS84

\* f"{crs}" of a crs that may be None
Str(crs) == IF crs = "" THEN "None" ELSE crs

\* the Content-Crs header create_crs_response gives the response, "" when
\* it returns the response as it is
create_crs_response(crs) ==
    IF crs = "" THEN (IF storageCrs \in SupportedCrs THEN storageCrs ELSE "")
    ELSE IF crs \in SupportedCrs THEN crs ELSE ""

\* a successful response with the crs name on its features and the header
Echo(out, name, header) ==
    [out EXCEPT !.resp = IF @.status = "ok"
                         THEN [@ EXCEPT !.feature_crs = name,
                                        !.content_crs = header]
                         ELSE @]

\* post_search inside its session block
SearchOf(r, is_direct_post, T, ext, tie) ==
    IF "FilterExtension" \in ext /\ "CrsExtension" \notin ext
    THEN Error("InternalError", "get_extension")
    ELSE Echo(SearchIn(r,
                  IF r.collections # {}
                  THEN {row \in T : row.collection_id \in r.collections} ELSE T,
                  IF "CrsExtension" \in ext THEN epsg_from_crs(r.bbox_crs)
                  ELSE storage_srid,
                  IF "FilterExtension" \in ext THEN epsg_from_crs(r.filter_crs)
                  ELSE storage_srid,
                  "ContextExtension" \in ext, tie),
              IF "CrsExtension" \in ext THEN Str(r.crs) ELSE "",
              IF is_direct_post /\ "CrsExtension" \in ext
              THEN create_crs_response(r.crs) ELSE "")

post_search(r, is_direct_post, T, ext, tie) ==
    context_session(SearchOf(r, is_direct_post, T, ext, tie))

(***************************************************************************)
(* The endpoints.                                                          *)
(***************************************************************************)
LimitCap == 10000

\* the limit the request model hands on: values above the cap are clamped
Clamp(r) == [r EXCEPT !.limit = IF r.limit > LimitCap THEN LimitCap ELSE r.limit]

\* POST /search: the body is validated against the request model before
\* post_search runs
PostEndpoint(r, T, ext, tie) ==
    IF post_request_model(r) # {}
    THEN Error("ValidationError", post_request_model(r))
    ELSE post_search(Clamp(r), TRUE, T, ext, tie)

\* the sortby terms of a GET request as the sortby of the request model
GetSortby(sortby) ==
    [i \in 1..Len(sortby) |->
        SortBy(Tail(sortby[i]), IF Head(sortby[i]) = "+" THEN "asc" ELSE "desc")]

\* get_search below the validation of its arguments
GetResponse(out, crs, ext) ==
    [out EXCEPT !.resp = IF "CrsExtension" \in ext /\ @.status = "ok"
                         THEN [@ EXCEPT !.content_crs = create_crs_response(crs)]
                         ELSE @]

get_search(r, T, ext, tie) ==
    LET base_args == [r EXCEPT !.sortby = GetSortby(r.sortby)]
    IN  IF post_request_model(base_args) # {}
        THEN Error("ValidationError", post_request_model(base_args))
        ELSE GetResponse(post_search(Clamp(base_args), FALSE, T, ext, tie),
                         r.crs, ext)

(***************************************************************************)
(* GET /collections/{collection_id}/items.                                 *)
(***************************************************************************)
CollectionTable == {"skraafotos2017", "skraafotos2019"}

\* item_collection running its count query ahead of the filter block
ItemsCountFirst(r, rows, bbox_srid, filter_srid, context_on, geom, filter, tie) ==
    IF filter.status = "InternalError"
    THEN [CompileError EXCEPT !.query.counted = context_on]
    ELSE IF filter.status # "ok"
    THEN [Error(filter.status, filter.detail) EXCEPT !.query.counted = context_on]
    ELSE Respond(Selected(rows, geom, bbox_srid, filter, r.datetime),
                 DistanceKeys(IF geom # NoBox
                              THEN <<DistanceKey(geom, bbox_srid)>> ELSE << >>,
                              filter, filter_srid)
                     \o <<Key("datetime", "desc"), Key("id", "asc")>>,
                 r.limit, PageOfToken(r.pt),
                 Count(context_on,
                       Cardinality(Selected(rows, geom, bbox_srid, filter,
                                            r.datetime))),
                 filter.ast # NoneNode, context_on, tie)

\* item_collection below its collection and crs checks
Items(r, rows, bbox_srid, filter_srid, context_on, geom, filter, tie) ==
    IF filter.status = "InternalError" THEN CompileError
    ELSE IF filter.status # "ok" THEN Error(filter.status, filter.detail)
    ELSE Respond(Selected(rows, geom, bbox_srid, filter, r.datetime),
                 DistanceKeys(IF geom # NoBox
                              THEN <<DistanceKey(geom, bbox_srid)>> ELSE << >>,
                              filter, filter_srid)
                     \o <<Key("datetime", "desc"), Key("id", "asc")>>,
                 r.limit, PageOfToken(r.pt),
                 Count(context_on,
                       Cardinality(Selected(rows, geom, bbox_srid, filter,
                                            r.datetime))),
                 filter.ast # NoneNode, context_on, tie)

\* item_collection with the srids resolved
ItemsIn(r, rows, bbox_srid, filter_srid, context_on, geom, tie) ==
    Items(r, rows, bbox_srid, filter_srid, context_on, geom,
          IF r.filter # "" THEN CompileFilter(r.filter, {}, filter_srid, geom)
          ELSE NoFilter,
          tie)

\* the detail of the HTTPException for an unsupported crs: the argument and
\* the joined list of the supported ones
CrsDetail(argument) == [argument |-> argument, options |-> SupportedCrs]

\* the outcome with the lookup of _lookup_id done
LookedUp(out) == [out EXCEPT !.query.lookup = TRUE]

\* item_collection below the lookup of its collection
ItemsOf(r, T, ext, tie) ==
    IF \E c \in {r.crs, r.bbox_crs, r.filter_crs} :
            c # "" /\ "CrsExtension" \in ext /\ c \notin SupportedCrs
    THEN Error("CrsError",
               CrsDetail(IF r.crs # "" /\ r.crs \notin SupportedCrs THEN "crs"
                         ELSE IF r.bbox_crs # "" /\ r.bbox_crs \notin SupportedCrs
                         THEN "bbox_crs" ELSE "filter_crs"))
    ELSE IF r.filter_lang # "" /\ "FilterExtension" \in ext
               /\ r.filter_lang # "cql-json"
    THEN Error("FilterLangError", r.filter_lang)
    ELSE Echo(ItemsIn(r,
                 {row \in T : row.collection_id = r.collection_id},
                 IF r.bbox_crs # "" /\ "CrsExtension" \in ext
                 THEN epsg_from_crs(r.bbox_crs) ELSE storage_srid,
                 IF r.filter_crs # "" /\ "CrsExtension" \in ext
                 THEN epsg_from_crs(r.filter_crs) ELSE storage_srid,
                 "ContextExtension" \in ext,
                 IF r.bbox # << >> THEN BboxGeom(r.bbox) ELSE NoBox,
                 tie),
              IF "CrsExtension" \in ext THEN Str(r.crs) ELSE "",
              IF "CrsExtension" \in ext THEN create_crs_response(r.crs)
              ELSE "")

item_collection(r, T, ext, tie) ==
    context_session(
        IF r.collection_id \notin CollectionTable
        THEN LookedUp(NotFound("Collection", r.collection_id))
        ELSE LookedUp(ItemsOf(r, T, ext, tie)))

(***************************************************************************)
(* GET /collections/{collection_id}/items/{item_id}.                       *)
(***************************************************************************)
\* the response of get_item for the rows db_query matches
ItemResponse(r, found, ext) ==
    IF found = {} THEN LookedUp(NotFound("Item", r.item_id))
    ELSE LookedUp(
             [resp |-> [status |-> "ok", detail |-> "",
                        features |-> <<(CHOOSE row \in found : TRUE).rid>>,
                        next |-> NoToken, previous |-> NoToken,
                        matched |-> NoCount,
                        content_crs |-> IF "CrsExtension" \in ext
                                        THEN create_crs_response(r.crs) ELSE "",
                        feature_crs |-> IF "CrsExtension" \in ext
                                        THEN Str(r.crs) ELSE "",
                        collections |-> {},
               links |-> NoLinks],
              query |-> [NoQuery EXCEPT
                            !.selected = {row.rid : row \in found}]])

\* get_item without the check of its crs
get_item_any_crs(r, T, ext) ==
    context_session(
        ItemResponse(r,
                     {row \in T : /\ row.collection_id = r.collection_id
                                  /\ row.id = r.item_id},
                     ext))

get_item(r, T, ext) ==
    IF r.crs # "" /\ "CrsExtension" \in ext /\ r.crs \notin SupportedCrs
    THEN Error("CrsError", CrsDetail("crs"))
    ELSE context_session(
             ItemResponse(r,
                          {row \in T : /\ row.collection_id = r.collection_id
                                       /\ row.id = r.item_id},
                          ext))

(***************************************************************************)
(* GET /collections, GET /collections/{collection_id} and the collection   *)
(* check of the queryables endpoint.                                       *)
(***************************************************************************)
\* a successful response that carries collections
CollectionsResponse(ids) ==
    LookedUp([resp |-> [Error("ok", "").resp EXCEPT !.collections = ids],
              query |-> NoQuery])

all_collections == context_session(CollectionsResponse(CollectionTable))

get_collection(r) ==
    context_session(
        IF r.collection_id \notin CollectionTable
        THEN LookedUp(NotFound("Collection", r.collection_id))
        ELSE CollectionsResponse({r.collection_id}))

\* CoreFiltersClient.validate_collection: any exception of the lookup
\* becomes a ValueError
validate_collection(r) ==
    context_session(
        IF r.collection_id \notin CollectionTable
        THEN LookedUp(Error("ValueError", r.collection_id))
        ELSE CollectionsResponse({}))

(***************************************************************************)
(* The next and previous links of a page.                                  *)
(***************************************************************************)
\* post_search and get_search: {**query_params, "pt": token};
\* item_collection: del query_params["pt"], then
\* f"...?{urlencode(query_params)}&pt={token}"
PageLink(r, token) ==
    [params |-> IF r.pt # NoToken THEN [r EXCEPT !.pt = NoToken] ELSE r,
     pts |-> <<token>>]

\* `if page.next:` and `if page.previous:` append the link
WithLinks(rsp, r) ==
    [rsp EXCEPT !.links =
        [next |-> IF rsp.next # NoToken THEN PageLink(r, rsp.next) ELSE NoLink,
         previous |-> IF rsp.previous # NoToken
                      THEN PageLink(r, rsp.previous) ELSE NoLink]]

\* the response with the links built from the parameters of the request
Linked(out, r) == [out EXCEPT !.resp = WithLinks(@, r)]

\* the request a client sends when it follows a link: a parameter given
\* twice is read at its last occurrence
Target(link) == [link.params EXCEPT !.pt = link.pts[Len(link.pts)]]

\* the handler of the request's endpoint
Serve(r, T, ext, tie) ==
    IF r.shape = "POST" THEN Linked(PostEndpoint(r, T, ext, tie), r)
    ELSE IF r.shape = "GET" THEN Linked(get_search(r, T, ext, tie), r)
    ELSE IF r.shape = "ITEMS" THEN Linked(item_collection(r, T, ext, tie), r)
    ELSE IF r.shape = "ITEM" THEN get_item(r, T, ext)
    ELSE IF r.shape = "COLLECTIONS" THEN all_collections
    ELSE IF r.shape = "COLLECTION" THEN get_collection(r)
    ELSE validate_collection(r)

Faults == {"none", "count"}

\* the outcome when the count query raises: nothing after it runs and the
\* exception leaves the handler
CountFails(out) ==
    IF out.query.counted
    THEN [resp |-> Error("DatabaseError", "count").resp,
          query |-> [NoQuery EXCEPT !.compiled = out.query.compiled,
                                    !.lookup = out.query.lookup,
                                    !.sessions = out.query.sessions,
                                    !.held = out.query.held,
                                    !.counted = TRUE, !.count_failed = TRUE]]
    ELSE out

(***************************************************************************)
(* The requests of the model.                                              *)
(***************************************************************************)
Bbox84 == <<0, 0, 6, 2>>

Bbox25832 == <<4, 4, 10, 6>>

Area == Geom("Polygon", <<0, 0, 6, 2>>)

ErrorFilters ==
    {"bad_field", "between_bad_lower", "array", "and_array", "between_array",
     "invalid_op", "invalid_op_bad_field", "invalid_op_array", "add"}

GoodFilters == {"gsd_eq", "gsd_gte", "between_ok", "intersects", "not_intersects"}

\* filters with geometry literals of every type, nested in and, or and not
GeometryFilters == {"geoms_nested", "geoms_multi", "geometry_collection"}

PostSortbys ==
    {<< >>, <<SortBy(F_gsd, "asc")>>, <<SortBy(F_datetime, "asc"), SortBy(F_id, "desc")>>,
     <<SortBy(<<"x">>, "asc")>>}

GetSortbys == {<< >>, <<<<"+">> \o F_gsd>>, <<<<"-">> \o F_gsd>>, <<F_gsd>>}

Limits == 1..MaxLimit

RequestSpace(shp, sortbys) ==
    [shape : {shp},
     collection_id : {""},
     collections : {{}, {"skraafotos2017"}, {"other"}},
     ids : {<< >>, <<1, 2>>},
     bbox : {<< >>, Bbox84, Bbox25832},
     bbox_crs : {CRS84, CRS25832},
     intersects : {NoGeom, Area},
     datetime : {<< >>},
     filter : {""} \cup GoodFilters \cup ErrorFilters,
     filter_crs : {CRS84, CRS25832},
     filter_lang : {""},
     sortby : sortbys,
     crs : {CRS84},
     limit : Limits \cup {0},
     item_id : {0},
     pt : {NoToken}]

\* the combinations kept: each parameter varies where it matters
Kept(r) ==
    /\ (r.bbox = << >> /\ r.intersects = NoGeom) => r.bbox_crs = CRS84
    /\ r.bbox = Bbox25832 <=> (r.bbox_crs = CRS25832 /\ r.intersects = NoGeom)
    /\ r.filter_crs = CRS25832 => r.filter \in {"gsd_eq", "intersects"}
    /\ r.filter \in ErrorFilters =>
          /\ r.bbox = << >> /\ r.intersects = NoGeom
          /\ r.sortby = << >> /\ r.limit = MaxLimit
          /\ r.collections # {"other"}
    /\ r.collections = {"other"} =>
          r.filter \in {"", "gsd_eq"} /\ r.bbox = << >> /\ r.intersects = NoGeom
             /\ r.sortby = << >> /\ r.ids = << >>
    /\ r.intersects # NoGeom =>
          r.collections = {} /\ r.filter \in {"", "gsd_eq", "intersects", "bad_field"}
    /\ r.ids # << >> =>
          /\ r.filter \in {"", "gsd_gte", "bad_field", "invalid_op"}
          /\ r.bbox # Bbox25832
    /\ r.limit = 0 =>
          /\ r.filter = "" /\ r.sortby = << >> /\ r.ids = << >>
          /\ r.collections = {}
    /\ (r.intersects # NoGeom /\ r.bbox # << >>) =>
          r.sortby = << >> /\ r.limit = MaxLimit

\* the request that sets no parameter but the limit
Basic(shp, collection_id) ==
    [shape |-> shp, collection_id |-> collection_id, collections |-> {},
     ids |-> << >>, bbox |-> << >>, bbox_crs |-> CRS84, intersects |-> NoGeom,
     datetime |-> << >>, filter |-> "", filter_crs |-> CRS84,
     filter_lang |-> "", sortby |-> << >>, crs |-> CRS84, limit |-> MaxLimit,
     item_id |-> 0, pt |-> NoToken]

\* the forms of the datetime parameter: a timestamp, a closed interval, an
\* interval open at one end, an interval open at both ends
DatetimeForms ==
    {<<1>>, <<2>>, <<1, 1>>, <<1, 2>>, <<2, 2>>,
     <<2, OpenDots>>, <<2, OpenEmpty>>, <<OpenDots, 1>>, <<OpenEmpty, 1>>,
     <<OpenEmpty, OpenEmpty>>, <<OpenDots, OpenEmpty>>,
     <<OpenEmpty, OpenDots>>, <<OpenDots, OpenDots>>}

DatetimeRequests(shp, collection_ids) ==
    {[Basic(shp, c) EXCEPT !.datetime = d, !.limit = l] :
        c \in collection_ids, d \in DatetimeForms, l \in Limits}

\* requests with crs parameters that are not supported, or not given
CrsRequests(shp, collection_id, crss) ==
    {[Basic(shp, collection_id) EXCEPT !.crs = c] : c \in crss}
    \cup {[Basic(shp, collection_id) EXCEPT !.bbox_crs = "invalid",
                                            !.bbox = Bbox84],
          [Basic(shp, collection_id) EXCEPT !.filter_crs = "invalid",
                                            !.filter = "intersects"]}

\* searches by ids that are repeated or that no item has
IdsRequests(shp) ==
    {[Basic(shp, "") EXCEPT !.ids = i, !.collections = c] :
        i \in {<<1, 1>>, <<3, 9>>, <<9>>}, c \in {{}, {"skraafotos2017"}}}

\* a box over the western footprints only, and the same box with elevations
West == <<0, 0, 1, 1>>

Bbox3D(b, z1, z2) == <<b[1], b[2], z1, b[3], b[4], z2>>

\* requests with a bbox of four and of six elements; the elevations come
\* in rising order, equal, and (items endpoint) in falling order
BboxRequests(shp, collection_ids, boxes) ==
    {[Basic(shp, c) EXCEPT !.bbox = b] : c \in collection_ids, b \in boxes}

\* filtered searches over several collections, registered or not
CollectionsRequests(shp) ==
    {[Basic(shp, "") EXCEPT !.collections = c, !.filter = f] :
        c \in {{"skraafotos2017", "skraafotos2019"}, {"skraafotos2017", "other"},
               {"other", "another"}},
        f \in {"gsd_eq", "bad_field"}}

\* searches with limits below the least one and around the cap
LimitRequests(shp) ==
    {[Basic(shp, "") EXCEPT !.limit = l] :
        l \in {-1, LimitCap - 1, LimitCap, LimitCap + 1}}

\* requests with a filter of geometry literals and a filter-crs
GeometryFilterRequests(shp, collection_ids) ==
    {[Basic(shp, c) EXCEPT !.filter = f, !.filter_crs = crs] :
        c \in collection_ids, f \in GeometryFilters \cup {"intersects"},
        crs \in {CRS84, CRS25832}}

PostRequests ==
    {r \in RequestSpace("POST", PostSortbys) : Kept(r)}
    \cup GeometryFilterRequests("POST", {""})
    \cup LimitRequests("POST")
    \cup CollectionsRequests("POST")
    \cup BboxRequests("POST", {""}, {West, Bbox3D(West, 5, 7), Bbox3D(West, 0, 0)})
    \cup DatetimeRequests("POST", {""})
    \cup IdsRequests("POST")
    \cup CrsRequests("POST", "", {CRS25832, "invalid"})

GetRequests ==
    {r \in RequestSpace("GET", GetSortbys) :
        Kept(r) /\ r.filter \in {"", "gsd_eq", "invalid_op"} /\ r.collections = {}}
    \cup DatetimeRequests("GET", {""})
    \cup LimitRequests("GET")
    \cup BboxRequests("GET", {""}, {West, Bbox3D(West, 5, 7), Bbox3D(West, 0, 0)})
    \cup IdsRequests("GET")
    \cup CrsRequests("GET", "", {CRS25832, "invalid"})

ItemsSpace ==
    [shape : {"ITEMS"},
     collection_id : {"skraafotos2017", "skraafotos2019", "missing"},
     collections : {{}},
     ids : {<< >>},
     bbox : {<< >>, Bbox84},
     bbox_crs : {CRS84},
     intersects : {NoGeom},
     datetime : {<< >>},
     filter : {"", "gsd_eq", "intersects", "bad_field", "between_bad_lower",
               "between_array", "invalid_op", "invalid_op_bad_field"},
     filter_crs : {CRS84, CRS25832},
     filter_lang : {""},
     sortby : {<< >>},
     crs : {CRS84, "invalid"},
     limit : Limits,
     item_id : {0},
     pt : {NoToken}]

\* requests of the items endpoint with a filter language
FilterLangRequests ==
    {[Basic("ITEMS", c) EXCEPT !.filter = f, !.filter_lang = l] :
        c \in {"skraafotos2017", "missing"}, f \in {"gsd_eq", "bad_field"},
        l \in {"cql-json", "cql-text"}}

ItemsRequests ==
    ItemsSpace \cup DatetimeRequests("ITEMS", CollectionTable)
    \cup GeometryFilterRequests("ITEMS", {"skraafotos2017"})
    \cup FilterLangRequests
    \cup BboxRequests("ITEMS", {"skraafotos2017"},
                      {West, Bbox3D(West, 5, 7), Bbox3D(West, 7, 5)})
    \cup CrsRequests("ITEMS", "skraafotos2019", {"", CRS25832, "invalid"})

\* requests of the collection endpoints
CollectionRequests ==
    {Basic("COLLECTIONS", "")}
    \cup {Basic(shp, c) : shp \in {"COLLECTION", "VALIDATE"},
                          c \in CollectionTable \cup {"missing"}}

ItemRequests ==
    {[Basic("ITEM", c) EXCEPT !.item_id = i, !.crs = crs] :
        c \in {"skraafotos2017", "missing"}, i \in 1..3,
        crs \in {"", CRS84, CRS25832, "invalid"}}

(***************************************************************************)
(* The state machine: one client issues a search and follows its links.    *)
(***************************************************************************)
NoRequest == [shape |-> "none"]

NoResponse ==
    [status |-> "none", detail |-> "", features |-> << >>, next |-> NoToken,
     previous |-> NoToken, matched |-> NoCount, content_crs |-> "",
     feature_crs |-> "", collections |-> {}, links |-> NoLinks]

NoRun == [visited |-> << >>, pages |-> 0, linear |-> TRUE]

\* the extensions the application is built with
Configurations == SUBSET AllExtensions

\* the requests tried against a configuration: all of them when every
\* extension is enabled, else those without filter, sort and intersects
Offered(requests) ==
    IF extensions = AllExtensions THEN requests
    ELSE {r \in requests : /\ r.filter \in {"", "gsd_eq"} /\ r.sortby = << >>
                            /\ r.intersects = NoGeom
                            /\ r.filter_crs \in SupportedCrs}

(***************************************************************************)
(* State shared by the requests of one process: the geometry parser of     *)
(* pygeofilter's sqlalchemy backend, the queryables registry and           *)
(* FIELD_MAPPING.                                                          *)
(***************************************************************************)
\* a parser hook chosen by the filter-crs of the request
hook_of_filter_crs(r) ==
    IF r.filter_crs = CRS84 THEN "parse_geometry"
    ELSE "monkeypatch_parse_geometry"

\* pygeofilter.backends.sqlalchemy.filters.parse_geometry =
\*     monkeypatch_parse_geometry
geometry_parser_hook(r) == "monkeypatch_parse_geometry"

\* Queryables.base_queryables, Queryables.collections and
\* CoreCrudClient.FIELD_MAPPING as built when the classes are defined
Registry ==
    [base_queryables |-> BaseQueryables, collections |-> RegisteredCollections,
     FIELD_MAPPING |-> FIELD_MAPPING]

\* the handler came to its filter block, where it assigns the hook
FilterBlockEntered(r, rsp) ==
    /\ r.shape \in {"POST", "GET", "ITEMS"} /\ r.filter # ""
    /\ (r.shape = "ITEMS" \/ r.ids = << >>)
    /\ rsp.status \notin {"ValidationError", "NotFoundError", "CrsError",
                          "FilterLangError"}
    /\ ~(rsp.status = "InternalError" /\ rsp.detail = "get_extension")

\* a request in flight: its place in the handler, its own filter document,
\* the parser its filter was compiled with, and its response
Procs == {1, 2}

Idle ==
    [pc |-> "idle", r |-> NoRequest, tie |-> "up", doc |-> Num(0),
     parser |-> "", concurrent |-> FALSE, out |-> NoResponse]

Init ==
    /\ table \in Tables
    /\ extensions \in Configurations
    /\ req = NoRequest
    /\ resp = NoResponse
    /\ query = NoQuery
    /\ run = NoRun
    /\ lastOp = "init"
    /\ hook = "parse_geometry"
    /\ registry = Registry
    /\ flight = [p \in Procs |-> Idle]

FirstPage(rsp) == [visited |-> rsp.features, pages |-> 1, linear |-> TRUE]

NextPage(rsp) ==
    [run EXCEPT !.visited = run.visited \o rsp.features, !.pages = run.pages + 1]

OffPath(rsp) == [run EXCEPT !.linear = FALSE, !.pages = run.pages + 1]

\* the request r is served and the client records the page
Issue(r, tie, fault, op) ==
    \E served \in {Serve(r, table, extensions, tie)} :
    \E out \in {IF fault = "count" THEN CountFails(served) ELSE served} :
        /\ req' = r
        /\ resp' = out.resp
        /\ query' = out.query
        /\ run' = (CASE op = "next" -> NextPage(out.resp)
                     [] op \in {"previous", "reissue"} -> OffPath(out.resp)
                     [] OTHER -> FirstPage(out.resp))
        /\ lastOp' = op
        /\ hook' = (IF FilterBlockEntered(r, out.resp)
                    THEN geometry_parser_hook(r) ELSE hook)
        /\ UNCHANGED <<table, extensions, registry, flight>>

PostSearch ==
    /\ lastOp = "init"
    /\ \E r \in Offered(PostRequests), tie \in Ties, fault \in Faults :
          Issue(r, tie, fault, "post_search")

GetSearch ==
    /\ lastOp = "init"
    /\ \E r \in Offered(GetRequests), tie \in Ties, fault \in Faults :
          Issue(r, tie, fault, "get_search")

ItemCollection ==
    /\ lastOp = "init"
    /\ \E r \in Offered(ItemsRequests), tie \in Ties, fault \in Faults :
          Issue(r, tie, fault, "item_collection")

GetItem ==
    /\ lastOp = "init"
    /\ \E r \in ItemRequests, tie \in Ties : Issue(r, tie, "none", "get_item")

Collections ==
    /\ lastOp = "init"
    /\ \E r \in CollectionRequests, tie \in Ties :
          Issue(r, tie, "none", "collections")

\* the client follows the next link of the response
FollowNext ==
    /\ resp.status = "ok" /\ resp.links.next # NoLink
    /\ run.pages < MaxPages
    /\ \E tie \in Ties :
          Issue(Target(resp.links.next), tie, "none", "next")

\* the client follows the previous link of the response
FollowPrevious ==
    /\ resp.status = "ok" /\ resp.links.previous # NoLink
    /\ run.pages < MaxPages
    /\ \E tie \in Ties :
          Issue(Target(resp.links.previous), tie, "none", "previous")

\* the client sends the request it sent last once more
Reissue ==
    /\ resp.status = "ok"
    /\ run.pages < MaxPages
    /\ \E tie \in Ties : Issue(req, tie, "none", "reissue")

Next ==
    \/ PostSearch
    \/ GetSearch
    \/ ItemCollection
    \/ GetItem
    \/ Collections
    \/ FollowNext
    \/ FollowPrevious
    \/ Reissue

Spec == Init /\ [][Next]_vars

(***************************************************************************)
(* Two searches in flight at once.  A handler runs in a worker thread; its *)
(* steps that touch state outside the request are the in-place tagging of  *)
(* its filter document, the assignment of the parser hook and the compile  *)
(* of the filter, which calls the parser the hook holds at that moment.    *)
(***************************************************************************)
ConcurrentRequests ==
    {[Basic(shp[1], shp[2]) EXCEPT !.filter = f, !.filter_crs = crs] :
        shp \in {<<"POST", "">>, <<"ITEMS", "skraafotos2017">>},
        f \in {"", "intersects"}, crs \in {CRS84, CRS25832}}

ConcurrentTables == {T \in Tables : Cardinality(T) >= 3}

ConcurrentInit ==
    /\ table \in ConcurrentTables
    /\ extensions = AllExtensions
    /\ req = NoRequest
    /\ resp = NoResponse
    /\ query = NoQuery
    /\ run = NoRun
    /\ lastOp = "init"
    /\ hook = "parse_geometry"
    /\ registry = Registry
    /\ flight = [p \in Procs |-> Idle]

\* the response of a request whose filter was compiled with the parser: the
\* parser of the library reads every literal as EPSG:4326 whatever its crs
\* member, as the request with the default filter-crs is read
Compiled_with(parser, r, T, ext, tie) ==
    IF parser = "parse_geometry"
    THEN Serve([r EXCEPT !.filter_crs = CRS84], T, ext, tie).resp
    ELSE Serve(r, T, ext, tie).resp

\* the request passes validation and the checks ahead of the filter block
Begin(p) ==
    /\ flight[p].pc = "idle"
    /\ \E r \in ConcurrentRequests, tie \in Ties :
          flight' = [flight EXCEPT ![p] =
              [pc |-> IF r.filter # "" THEN "tag" ELSE "execute",
               r |-> r, tie |-> tie, doc |-> FilterDoc(r.filter),
               parser |-> "",
               concurrent |-> \E q \in Procs \ {p} :
                                 flight[q].pc \in {"tag", "assign", "compile"},
               out |-> NoResponse]]
    /\ UNCHANGED <<table, extensions, req, resp, query, run, lastOp,
                   hook, registry>>

\* add_filter_crs(filter, filter_srid) on the document of the request
Tag(p) ==
    /\ flight[p].pc = "tag"
    /\ flight' = [flight EXCEPT ![p].pc = "assign",
                                ![p].doc = add_filter_crs(
                                    @, epsg_from_crs(flight[p].r.filter_crs))]
    /\ UNCHANGED <<table, extensions, req, resp, query, run, lastOp,
                   hook, registry>>

\* the assignment of the hook
AssignHook(p) ==
    /\ flight[p].pc = "assign"
    /\ hook' = geometry_parser_hook(flight[p].r)
    /\ flight' = [flight EXCEPT ![p].pc = "compile"]
    /\ UNCHANGED <<table, extensions, req, resp, query, run, lastOp, registry>>

\* parse, validation against the registry, and to_filter, which calls the
\* parser the hook holds
Compile(p) ==
    /\ flight[p].pc = "compile"
    /\ flight' = [flight EXCEPT ![p].pc = "execute", ![p].parser = hook]
    /\ UNCHANGED <<table, extensions, req, resp, query, run, lastOp,
                   hook, registry>>

\* the queries are executed and the response is built
Execute(p) ==
    /\ flight[p].pc = "execute"
    /\ flight' = [flight EXCEPT ![p].pc = "done",
                                ![p].out = Compiled_with(flight[p].parser,
                                               flight[p].r, table, extensions,
                                               flight[p].tie)]
    /\ UNCHANGED <<table, extensions, req, resp, query, run, lastOp,
                   hook, registry>>

\* the response is sent
Finish(p) ==
    /\ flight[p].pc = "done"
    /\ flight' = [flight EXCEPT ![p] = Idle]
    /\ UNCHANGED <<table, extensions, req, resp, query, run, lastOp,
                   hook, registry>>

ConcurrentNext ==
    \E p \in Procs :
        \/ Begin(p)
        \/ Tag(p)
        \/ AssignHook(p)
        \/ Compile(p)
        \/ Execute(p)
        \/ Finish(p)

ConcurrentSpec == ConcurrentInit /\ [][ConcurrentNext]_vars

(***************************************************************************)
(* Properties.                                                             *)
(***************************************************************************)
RowOf(rid) == CHOOSE row \in ItemUniverse : row.rid = rid

IdsOf(features) == [i \in 1..Len(features) |-> RowOf(features[i]).id]

IsSearch == req.shape \in {"POST", "GET"}

\* position of two rows in the order of the compiled query
QueryCmp(r1, r2) ==
    Cmp(KeyTuple(r1, query.order_by), KeyTuple(r2, query.order_by), query.order_by)

InQueryOrder(features) ==
    \A i, j \in 1..Len(features) :
        i < j => QueryCmp(RowOf(features[i]), RowOf(features[j])) # 1

\* C1: a forward pass over the pages of one request, from the page without
\* a token to the page without a next link, visits every selected item
\* exactly once, in the order of the query, and takes N pages for limit 1
\* and N selected items.
KeysetCompleteness ==
    (run.linear /\ resp.status = "ok" /\ resp.next = NoToken) =>
        /\ Range(run.visited) = query.selected
        /\ Len(run.visited) = Cardinality(query.selected)
        /\ InQueryOrder(run.visited)
        /\ (req.limit = 1 /\ query.selected # {}) =>
               run.pages = Cardinality(query.selected)
\* C2: the same request with the same pagination token, sent twice against
\* the same table, returns the same sequence of item ids; the second use
\* finds the table and the token as the first left them.
IdempotentPagination ==
    [][(lastOp' = "reissue" /\ req.pt # NoToken) =>
          /\ req' = req /\ table' = table
          /\ resp'.status = resp.status
          /\ IdsOf(resp'.features) = IdsOf(resp.features)]_vars

TokenReused ==
    /\ lastOp = "reissue" /\ req.pt # NoToken
    /\ resp.status = "ok" /\ resp.features # << >>

\* the sortby of the request as the request model holds it
RequestSortby == IF req.shape = "GET" THEN GetSortby(req.sortby) ELSE req.sortby

KnownSortby ==
    \A i \in 1..Len(RequestSortby) : get_field(RequestSortby[i].field) # ""

ExplicitKeys ==
    [i \in 1..Len(RequestSortby) |->
        Key(get_field(RequestSortby[i].field), RequestSortby[i].direction)]

\* the rows of the table with an id of the request, in its collections
RowsOfIds ==
    {row.rid : row \in
        {row \in table :
            /\ \E i \in 1..Len(req.ids) : req.ids[i] = row.id
            /\ req.collections # {} => row.collection_id \in req.collections}}

IdsRequest == IsSearch /\ resp.status = "ok" /\ req.ids # << >>

ExplicitSortOverridesDistance ==
    (IsSearch /\ resp.status = "ok" /\ req.ids = << >>
        /\ req.sortby # << >>) =>
        /\ \A i \in 1..Len(query.order_by) :
              query.order_by[i].expr # "distance"
        /\ Len(query.order_by) >= Len(ExplicitKeys)
        /\ Take(query.order_by, Len(ExplicitKeys)) = ExplicitKeys

\* the ordering k1 places the selected rows of the table as k2 does: rows
\* that k2 tells apart come in the order k2 gives them
OrderedAs(k1, k2) ==
    \A a, b \in {row \in table : row.rid \in query.selected} :
        Cmp(KeyTuple(a, k2), KeyTuple(b, k2), k2) = -1 =>
            Cmp(KeyTuple(a, k1), KeyTuple(b, k1), k1) = -1

\* the property names, operator keys and geometry literals of a document
RECURSIVE DocProps(_)
DocProps(d) ==
    IF "list" \in DOMAIN d
    THEN UNION {DocProps(d.list[i]) : i \in 1..Len(d.list)}
    ELSE IF "lit" \in DOMAIN d \/ "type" \in DOMAIN d THEN {}
    ELSE IF "property" \in DOMAIN d THEN {d.property}
    ELSE UNION {DocProps(d[k]) : k \in DOMAIN d}

OperandKeys == {"value", "lower", "upper"}

RECURSIVE DocOps(_)
DocOps(d) ==
    IF "list" \in DOMAIN d
    THEN UNION {DocOps(d.list[i]) : i \in 1..Len(d.list)}
    ELSE IF "lit" \in DOMAIN d \/ "type" \in DOMAIN d
            \/ "property" \in DOMAIN d THEN {}
    ELSE (DOMAIN d \ OperandKeys) \cup UNION {DocOps(d[k]) : k \in DOMAIN d}

RECURSIVE DocHasGeometry(_)
DocHasGeometry(d) ==
    IF "list" \in DOMAIN d
    THEN \E i \in 1..Len(d.list) : DocHasGeometry(d.list[i])
    ELSE IF "lit" \in DOMAIN d \/ "property" \in DOMAIN d THEN FALSE
    ELSE IF "type" \in DOMAIN d THEN TRUE
    ELSE \E k \in DOMAIN d : DocHasGeometry(d[k])

RequestDoc == FilterDoc(req.filter)

InputGeometry ==
    IF req.intersects # NoGeom THEN shape(req.intersects) ELSE BboxGeom(req.bbox)

HasInputGeometry == req.intersects # NoGeom \/ req.bbox # << >>

\* C5: a search without ids and sortby is ordered by datetime descending,
\* id ascending when the request holds no geometry, and by distance to the
\* centroid of the bbox or intersects geometry, read in the bbox CRS, then
\* datetime descending, id ascending when it holds one.
OrderingWithoutSortby ==
    (IsSearch /\ resp.status = "ok" /\ req.ids = << >>
        /\ req.sortby = << >>) =>
        /\ (~HasInputGeometry
               /\ (req.filter # "" => ~DocHasGeometry(RequestDoc))) =>
              OrderedAs(query.order_by,
                        <<Key("datetime", "desc"), Key("id", "asc")>>)
        /\ HasInputGeometry =>
              OrderedAs(query.order_by,
                        <<DistanceKey(InputGeometry, epsg_from_crs(req.bbox_crs)),
                          Key("datetime", "desc"), Key("id", "asc")>>)

\* C6: every compiled ordering ends with id ascending, and no two rows of
\* the table have the same values on all its keys.
TotalOrderByIdTiebreak ==
    resp.status = "ok" =>
        /\ query.order_by # << >>
        /\ query.order_by[Len(query.order_by)] = Key("id", "asc")
        /\ \A a, b \in table : a # b => QueryCmp(a, b) # 0
\* the filter block of the handler was reached
FilterReached ==
    /\ req.shape # "none" /\ req.filter # "" /\ req.ids = << >>
    /\ resp.status \notin {"ValidationError", "NotFoundError", "CrsError",
                          "FilterLangError"}
    /\ ~(resp.status = "InternalError" /\ resp.detail = "get_extension")

\* the operator keys the parser has a rule for
ParserKeys ==
    {"and", "or", "not", "between", "isNull"}
        \cup DOMAIN COMPARISON_MAP \cup DOMAIN SPATIAL_PREDICATES_MAP
        \cup DOMAIN ARRAY_PREDICATES_MAP \cup DOMAIN ARITHMETIC_MAP

Parsable(d) == DocOps(d) \subseteq ParserKeys

\* base queryables plus the queryables shared by the requested collections
ActiveFields ==
    BaseQueryables \cup
        get_queryable_properties_intersection(
            IF req.shape = "ITEMS" THEN {} ELSE req.collections)

\* C7: a filter is compiled and executed only if every property of the
\* document is an active field; a document with a property outside the
\* active fields is rejected with "Cannot search on field" naming such a
\* property, and no query is executed.
FieldValidation ==
    (FilterReached /\ Parsable(RequestDoc)) =>
        LET outside == DocProps(RequestDoc) \ ActiveFields
        IN  /\ query.compiled => outside = {}
            /\ outside # {} =>
                  /\ resp.status = "FieldError"
                  /\ resp.detail \in outside
                  /\ ~query.executed

\* the operators a filter may use
SupportedOperators ==
    {"and", "or", "not", "between", "isNull"} \cup valid_operations

\* C8: a parsed filter with an operator outside the supported set anywhere
\* in it is rejected as an unsupported operation, the error holding the
\* operator, and is never compiled; gte and lte are accepted under their
\* tree names ge and le.
OperatorValidation ==
    (FilterReached /\ Parsable(RequestDoc)
        /\ DocProps(RequestDoc) \subseteq ActiveFields) =>
        LET unsupported == DocOps(RequestDoc) \ SupportedOperators
        IN  /\ unsupported # {} =>
                  /\ resp.status = "OperationError"
                  /\ ~query.compiled
                  /\ Range(inOrderOpsCollect_rec(resp.detail))
                         \cap unsupported # {}
            /\ DocOps(RequestDoc) \subseteq DOMAIN COMPARISON_MAP =>
                  resp.status # "OperationError"

\* C9: a document with an operator key the parser has no rule for ends in
\* the parse error holding the node of that key, whatever fields and
\* operators it holds besides; field and operator errors are reported for
\* parsable documents only.
ParsePrecedesValidation ==
    FilterReached =>
        /\ ~Parsable(RequestDoc) =>
              /\ resp.status = "ParseError"
              /\ DOMAIN resp.detail \cap ParserKeys = {}
              /\ DOMAIN resp.detail \subseteq DocOps(RequestDoc)
              /\ ~query.compiled /\ ~query.executed
        /\ resp.status \in {"FieldError", "OperationError"} =>
              Parsable(RequestDoc)

UnparsableWithBadFieldOrOperator ==
    /\ FilterReached /\ resp.status = "ParseError"
    /\ \/ DocProps(RequestDoc) \ ActiveFields # {}
       \/ DocOps(RequestDoc) \cap DOMAIN ARRAY_PREDICATES_MAP # {}

\* C10: a search with both bbox and intersects is rejected by validation,
\* the error naming both parameters, on GET and on POST, and no query is
\* run for it.
MutualExclusivity ==
    (IsSearch /\ req.bbox # << >> /\ req.intersects # NoGeom) =>
        /\ resp.status = "ValidationError"
        /\ {"bbox", "intersects"} \subseteq resp.detail
        /\ ~query.executed

BboxAndIntersectsOnGet ==
    /\ req.shape = "GET" /\ req.bbox # << >> /\ req.intersects # NoGeom
    /\ resp.status = "ValidationError"

(***************************************************************************)
(* Requests that are rejected.                                             *)
(***************************************************************************)
DoubleOpen(d) == Len(d) = 2 /\ d[1] \in OpenEnds /\ d[2] \in OpenEnds

\* C11: a GET or POST search whose datetime is open at both ends ("/",
\* "../", "/..", "../..") is rejected by the validation of the datetime
\* parameter and no query of it is executed.
DoubleOpenIntervalRejected ==
    (IsSearch /\ DoubleOpen(req.datetime)) =>
        /\ resp.status = "ValidationError"
        /\ "datetime" \in resp.detail
        /\ query = NoQuery

DoubleOpenOnGetAndPost ==
    /\ IsSearch /\ req.datetime = <<OpenDots, OpenEmpty>>
    /\ resp.status = "ValidationError"

(***************************************************************************)
(* The temporal predicate.                                                 *)
(***************************************************************************)
\* the rows the request ranges over: the collection of the path, the
\* collections of the search, or the whole table
Scope ==
    IF req.shape = "ITEMS"
    THEN {row \in table : row.collection_id = req.collection_id}
    ELSE IF req.collections # {}
    THEN {row \in table : row.collection_id \in req.collections}
    ELSE table

OnlyDatetime ==
    /\ req.datetime # << >> /\ ~DoubleOpen(req.datetime)
    /\ req.ids = << >> /\ req.bbox = << >> /\ req.intersects = NoGeom
    /\ req.filter = ""

\* the interval of the datetime parameter as the set of instants it names
InInterval(d, t) ==
    IF Len(d) = 1 THEN t = d[1]
    ELSE /\ (d[1] \notin OpenEnds => d[1] <= t)
         /\ (d[2] \notin OpenEnds => t <= d[2])

\* C19: in post_search and item_collection a timestamp selects the items of
\* that datetime, a closed interval a/b those with a <= datetime <= b, a/..
\* those with datetime >= a and ../b those with datetime <= b.
DatetimePredicate ==
    (resp.status = "ok" /\ OnlyDatetime) =>
        query.selected =
            {row.rid : row \in {x \in Scope : InInterval(req.datetime, x.datetime)}}

IntervalBoundSelects ==
    /\ req.shape = "ITEMS" /\ req.datetime = <<OpenDots, 1>>
    /\ resp.status = "ok"
    /\ query.selected # {}
    /\ query.selected # {row.rid : row \in Scope}

(***************************************************************************)
(* Storage calls of rejected requests.                                     *)
(***************************************************************************)
\* the request was rejected with a validation, CRS, filter-language,
\* filter-parse, field or operator error
Rejected ==
    resp.status \in {"ValidationError", "CrsError", "FilterLangError",
                     "ParseError", "FieldError", "OperationError"}

MatchCount ==
    (IsSearch /\ resp.status = "ok") =>
        IF "ContextExtension" \in extensions
        THEN resp.matched = Cardinality(query.selected)
        ELSE ~query.counted /\ resp.matched = NoCount

\* C14: in post_search and item_collection a count query that fails leaves
\* the request successful: the page of features is returned and the count
\* is absent.
CountFailureDegrades ==
    query.count_failed => resp.status = "ok" /\ resp.matched = NoCount

(***************************************************************************)
(* Coordinate reference systems.                                           *)
(***************************************************************************)
\* the crs arguments of the request that are given and not supported
InvalidCrsArguments ==
    IF req.shape = "none" THEN {}
    ELSE {a \in {"crs", "bbox_crs", "filter_crs"} :
             LET c == IF a = "crs" THEN req.crs
                      ELSE IF a = "bbox_crs" THEN req.bbox_crs
                      ELSE req.filter_crs
             IN  c # "" /\ c \notin SupportedCrs}

\* the error names one of the unsupported arguments; the error of the
\* handlers carries the supported list
CrsRejected ==
    \/ /\ resp.status = "ValidationError"
       /\ resp.detail \cap {"crs", "bbox-crs", "filter-crs"} # {}
    \/ /\ resp.status = "CrsError"
       /\ resp.detail.argument \in InvalidCrsArguments
       /\ resp.detail.options = SupportedCrs

CrsEcho ==
    ("CrsExtension" \in extensions /\ resp.status = "ok") =>
        /\ resp.content_crs = (IF req.crs = "" THEN storageCrs ELSE req.crs)
        /\ resp.features # << >> => resp.feature_crs = resp.content_crs

(***************************************************************************)
(* The limit of a search.                                                  *)
(***************************************************************************)
LimitRejected == resp.status = "ValidationError" /\ "limit" \in resp.detail

\* the page size handed to get_page is the limit, or the cap for a limit
\* above it, and the page holds no more items than that
PageSizeClamped ==
    resp.status = "ok" =>
        /\ query.per_page = Min2(req.limit, LimitCap)
        /\ Len(resp.features) <= LimitCap

Projected ==
    [req EXCEPT !.bbox = <<req.bbox[1], req.bbox[2], req.bbox[4], req.bbox[5]>>]

QueryablesOf(c) ==
    IF c \in RegisteredCollections THEN SkraafotosProperties \ BaseQueryables
    ELSE {}

\* C20: the shared fields get_queryable_properties_intersection returns for
\* the collections of a filtered search are the non-base fields queryable in
\* every given collection (in every registered one when none is given); a
\* field is not returned when some given collection, registered or not,
\* does not have it.
QueryableIntersection ==
    (IsSearch /\ FilterReached) =>
        get_queryable_properties_intersection(req.collections) =
            {q \in FIELD_MAPPING \ BaseQueryables :
                \A c \in (IF req.collections = {} THEN RegisteredCollections
                           ELSE req.collections) : q \in QueryablesOf(c)}

(***************************************************************************)
(* Sessions.                                                               *)
(***************************************************************************)
\* C21: every handler acquires at most one storage session, and when it has
\* ended, by a response or by any error, it holds no session.
ScopedSession ==
    req.shape # "none" => query.sessions <= 1 /\ query.held = 0

SessionReleasedOnError ==
    /\ resp.status \in {"DatabaseError", "NotFoundError", "ParseError"}
    /\ query.sessions = 1 /\ query.held = 0

(***************************************************************************)
(* Missing collections and items.                                          *)
(***************************************************************************)
\* the request names a collection or an item that the storage does not hold
MissingCollection ==
    /\ req.shape \in {"ITEMS", "COLLECTION"}
    /\ req.collection_id \notin CollectionTable

MissingItem ==
    /\ req.shape = "ITEM"
    /\ ~ \E row \in table : /\ row.collection_id = req.collection_id
                             /\ row.id = req.item_id

\* the response is the NotFound error that names the identifier
NotFoundNaming(tbl, id) ==
    /\ resp.status = "NotFoundError"
    /\ resp.detail = [table |-> tbl, id |-> id]

\* C24 (as stated): item_collection and get_collection on a missing
\* collection, and get_item on a missing item, always end in the NotFound
\* error naming the identifier.
NotFoundAlways ==
    /\ MissingCollection => NotFoundNaming("Collection", req.collection_id)
    /\ MissingItem => NotFoundNaming("Item", req.item_id)

\* C24 (amended): item_collection and get_collection on a missing collection
\* always end in the NotFound error naming the collection; get_item on a
\* missing item ends in the NotFound error naming the item unless its crs
\* argument is unsupported, which is rejected before the item is looked up;
\* none of them returns a successful response.
NotFoundUnlessCrsRejected ==
    /\ MissingCollection => NotFoundNaming("Collection", req.collection_id)
    /\ MissingItem =>
          IF "CrsExtension" \in extensions /\ "crs" \in InvalidCrsArguments
          THEN CrsRejected
          ELSE NotFoundNaming("Item", req.item_id)

MissingItemNotFound ==
    MissingItem /\ NotFoundNaming("Item", req.item_id)

(***************************************************************************)
(* The sortby parameter of GET /search.                                    *)
(***************************************************************************)
\* the sort a GET term stands for: "+f" and "f" are f ascending, "-f" is f
\* descending
TermSort(term) ==
    IF Head(term) \in {"+", "-"}
    THEN Key(get_field(Tail(term)), IF Head(term) = "-" THEN "desc" ELSE "asc")
    ELSE Key(get_field(term), "asc")

\* the GET search came to its sort block
GetSortReached ==
    /\ req.shape = "GET" /\ req.sortby # << >> /\ req.ids = << >>
    /\ resp.status \in {"ok", "SortFieldError"}

\* C23: a GET search orders by the fields of its sortby terms, "+f" and the
\* unprefixed "f" ascending and "-f" descending, under the full name f, and
\* closes the ordering with the id.
GetSortbyParsing ==
    GetSortReached =>
        /\ resp.status = "ok"
        /\ Len(query.order_by) >= Len(req.sortby) + 1
        /\ SubSeq(query.order_by, Len(query.order_by) - Len(req.sortby),
                  Len(query.order_by) - 1)
              = [i \in 1..Len(req.sortby) |-> TermSort(req.sortby[i])]

(***************************************************************************)
(* The documented operators.                                               *)
(***************************************************************************)
DocumentedOperators ==
    {"eq", "gt", "gte", "lt", "lte", "and", "or", "not", "isNull", "between",
     "intersects", "+", "-", "*", "/"}

\* C25: a filter built from the documented operators only, over active
\* fields, passes the operator validation: it is never rejected as an
\* unsupported operation.
SupportedOperatorsAccepted ==
    (FilterReached /\ Parsable(RequestDoc)
        /\ DocProps(RequestDoc) \subseteq ActiveFields
        /\ DocOps(RequestDoc) \subseteq DocumentedOperators) =>
        resp.status # "OperationError"

(***************************************************************************)
(* The geometry of the filter.                                             *)
(***************************************************************************)
\* the first geometry literal of a document, in the order of the document
RECURSIVE FirstGeometry(_)
FirstGeometry(d) ==
    IF "list" \in DOMAIN d
    THEN IF \E i \in 1..Len(d.list) : FirstGeometry(d.list[i]) # NoGeom
         THEN FirstGeometry(d.list[CHOOSE i \in 1..Len(d.list) :
                  /\ FirstGeometry(d.list[i]) # NoGeom
                  /\ \A j \in 1..(i - 1) : FirstGeometry(d.list[j]) = NoGeom])
         ELSE NoGeom
    ELSE IF "lit" \in DOMAIN d \/ "property" \in DOMAIN d THEN NoGeom
    ELSE IF "type" \in DOMAIN d THEN d
    ELSE IF \E k \in DOMAIN d : FirstGeometry(d[k]) # NoGeom
    THEN FirstGeometry(d[CHOOSE k \in DOMAIN d : FirstGeometry(d[k]) # NoGeom])
    ELSE NoGeom

\* the syntax tree the handler parses from the filter of the request
RequestAst ==
    walk_cql_json(add_filter_crs(RequestDoc, epsg_from_crs(req.filter_crs)))

\* C26: when the filter of a served search holds a geometry literal anywhere
\* in it, at the root, under and/or or under not, get_geometry_filter returns
\* the first geometry node of the tree in pre-order and the query orders by
\* the distance to it.
GeometryExtraction ==
    (FilterReached /\ resp.status = "ok" /\ DocHasGeometry(RequestDoc)) =>
        /\ get_geometry_filter(RequestAst) # NoneNode
        /\ \E i \in 1..Len(query.order_by) :
              /\ query.order_by[i].expr = "distance"
              /\ query.order_by[i].point =
                     Centroid(shape(FirstGeometry(RequestDoc)))

(***************************************************************************)
(* The CRS of the geometry literals of the filter.                         *)
(***************************************************************************)
\* the geometry literals of a document
RECURSIVE DocGeometries(_)
DocGeometries(d) ==
    IF "list" \in DOMAIN d
    THEN UNION {DocGeometries(d.list[i]) : i \in 1..Len(d.list)}
    ELSE IF "lit" \in DOMAIN d \/ "property" \in DOMAIN d THEN {}
    ELSE IF "type" \in DOMAIN d THEN {d}
    ELSE UNION {DocGeometries(d[k]) : k \in DOMAIN d}

\* the document without the crs member of its geometry literals
RECURSIVE Untagged(_)
Untagged(d) ==
    IF "list" \in DOMAIN d
    THEN [list |-> [i \in 1..Len(d.list) |-> Untagged(d.list[i])]]
    ELSE IF "lit" \in DOMAIN d \/ "property" \in DOMAIN d THEN d
    ELSE IF "type" \in DOMAIN d THEN [k \in DOMAIN d \ {"crs"} |-> d[k]]
    ELSE [k \in DOMAIN d |-> Untagged(d[k])]

\* the filter of the request is a single intersects with the geometry g, and
\* nothing else of the request selects rows
OnlyIntersects ==
    /\ req.filter = "intersects"
    /\ req.ids = << >> /\ req.bbox = << >> /\ req.intersects = NoGeom
    /\ req.datetime = << >>

\* the geometry in the storage CRS that a literal read in the CRS stands for
InStorageCrs(g, crs) ==
    IF crs = CRS84 THEN shape(g)
    ELSE <<shape(g)[1] - Shift25832, shape(g)[2] - Shift25832,
           shape(g)[3] - Shift25832, shape(g)[4] - Shift25832>>

IsPage == req.shape \in {"POST", "GET", "ITEMS"} /\ resp.status = "ok"

\* the link repeats the parameters of the request and carries the token as
\* its only pt
RepeatsRequest(link, token) ==
    /\ link.pts = <<token>>
    /\ link.params = [req EXCEPT !.pt = NoToken]

\* C28: a page has a next link exactly when the fetched page has a following
\* page and a previous link exactly when it has a preceding page: the first
\* page has no previous link and has a next link exactly when the selection
\* is longer than the page, the page reached through a next link has a
\* previous link; a link repeats all parameters of the request and carries
\* exactly one pt, the new cursor.
PaginationLinks ==
    IsPage =>
        /\ (resp.links.next # NoLink) <=> query.has_next
        /\ (resp.links.previous # NoLink) <=> query.has_previous
        /\ req.pt = NoToken =>
              /\ resp.links.previous = NoLink
              /\ (resp.links.next # NoLink)
                    <=> Cardinality(query.selected) > query.per_page
        /\ lastOp = "next" => resp.links.previous # NoLink
        /\ resp.links.next # NoLink =>
              RepeatsRequest(resp.links.next, resp.next)
        /\ resp.links.previous # NoLink =>
              RepeatsRequest(resp.links.previous, resp.previous)

(***************************************************************************)
(* The filter CRS and the bbox.                                            *)
(***************************************************************************)
\* the pages the request gets when its filter-crs is the default CRS
PagesUnderDefaultFilterCrs ==
    {Serve([req EXCEPT !.filter_crs = CRS84], table, extensions, tie).resp.features :
        tie \in Ties}

\* C29: a page of a request whose filter holds no geometry is the page the
\* same request gets under another filter-crs, and the distance ordering of
\* a bbox or intersects geometry reads it in the bbox CRS, never in the
\* filter CRS, whether or not the request holds a filter or a sortby.
FilterCrsLeavesBboxAlone ==
    (req.shape \in {"POST", "GET", "ITEMS"} /\ resp.status = "ok"
        /\ ~DocHasGeometry(RequestDoc)) =>
        /\ resp.features \in PagesUnderDefaultFilterCrs
        /\ HasInputGeometry =>
              \A i \in 1..Len(query.order_by) :
                  query.order_by[i].expr = "distance" =>
                      query.order_by[i].srid = epsg_from_crs(req.bbox_crs)

(***************************************************************************)
(* The SRIDs of a search under the configurations of the application.      *)
(***************************************************************************)
\* the search passed the request model and came to resolve its SRIDs
SridsResolved ==
    IsSearch /\ resp.status \notin {"ValidationError"}

\* C30: under every configuration of the Filter, CRS and Context
\* extensions a search resolves its SRIDs without an internal error, and
\* with the CRS extension disabled every distance ordering reads its
\* geometry in the storage SRID.
SridResolution ==
    SridsResolved =>
        /\ ~(resp.status = "InternalError" /\ resp.detail = "get_extension")
        /\ "CrsExtension" \notin extensions =>
              \A i \in 1..Len(query.order_by) :
                  query.order_by[i].expr = "distance" =>
                      query.order_by[i].srid = storage_srid

(***************************************************************************)
(* Requests in flight at once.                                             *)
(***************************************************************************)
\* C22: whatever the interleaving of two searches, each compiles its filter
\* with the patched parser and on its own document tagged with its own
\* filter CRS, returns the response it returns when it runs alone, and the
\* registry and FIELD_MAPPING stay as they were at start-up.
RequestIndependence ==
    /\ registry = Registry
    /\ \A p \in Procs :
          /\ flight[p].pc \in {"assign", "compile"} =>
                flight[p].doc =
                    add_filter_crs(FilterDoc(flight[p].r.filter),
                                   epsg_from_crs(flight[p].r.filter_crs))
          /\ (flight[p].pc \in {"execute", "done"} /\ flight[p].r.filter # "") =>
                flight[p].parser = "monkeypatch_parse_geometry"
          /\ flight[p].pc = "done" =>
                flight[p].out = Serve(flight[p].r, table, extensions,
                                      flight[p].tie).resp

OverlappingSearchesServed ==
    /\ flight[1].pc = "done" /\ flight[2].pc = "done"
    /\ flight[1].concurrent \/ flight[2].concurrent
    /\ flight[1].r.filter = "intersects" /\ flight[2].r.filter = "intersects"
    /\ flight[1].r.filter_crs # flight[2].r.filter_crs
    /\ flight[1].out.features # flight[2].out.features

====
